---- MODULE Spec2Model ----
(***************************************************************************)
(* A model of the car sales assistant of src/core/agent.py (the base       *)
(* variant) and src/core/agent_v1.py (the extended variant, with the       *)
(* appointment manager).                                                   *)
(*                                                                         *)
(* Texts are TLA+ strings; TLC evaluates Len, \o and SubSeq on them, so    *)
(* str.lower(), the `in` substring test, string concatenation and the      *)
(* date formats are computed character by character.                       *)
(***************************************************************************)
EXTENDS Integers, Sequences, FiniteSets, TLC

VARIABLES
    variant,               \* "base": agent.py, "v1": agent_v1.py
    pc,                    \* position of main(), or of the driver of a class
    model,                 \* CarSalesAssistant.model
    conversation_history,  \* CarSalesAssistant.conversation_history
    car_data,              \* CarSalesAssistant.car_data (None or a table)
    has_car_info,          \* hasattr(self, 'car_info')
    car_info,              \* CarSalesAssistant.car_info ("" while absent)
    user_query,            \* the argument of the last get_completion call
    completion,            \* what the remote service answered in the last
                           \* step (NoCompletion: the step made no call)
    messages,              \* the request of the last get_completion call
    reply,                 \* the value the last get_completion call returned
    exchanges,             \* log: <<user_query, returned>> of each successful
                           \* call since construction or clear_conversation
    load_calls,            \* log: number of load_car_data invocations
    load_state,            \* log: "never", "ok" or "failed" (the last load)
    stdin_line,            \* the line the last input() call returned
    user_input,            \* main(): user_input
    response,              \* main(): response
    last_response,         \* main(): last_response
    appointment,           \* main(): appointment (the form being filled)
    detect_args,           \* arguments of the last detect_test_drive_intent
    detected,              \* result of the last detect_test_drive_intent
    files,                 \* the appointments directory: filename -> content
    saves,                 \* log: the record of each successful save
    now                    \* the wall clock: [s |-> second, us |-> microsecond]

session == <<model, conversation_history, car_data, has_car_info, car_info,
             user_query, completion, messages, reply, exchanges, load_calls, load_state>>
locals  == <<stdin_line, user_input, response, last_response, appointment>>
intent  == <<detect_args, detected>>
storage == <<files, saves, now>>
vars    == <<variant, pc, session, locals, intent, storage>>

\* Python's None where a text is expected
PyNone == "<None>"

----------------------------------------------------------------------------
(* Bounds of the model. *)

\* successful exchanges kept in one transcript
MaxTurns == 2
\* the clock runs over the seconds 0 .. MaxSec of one minute
MaxSec == 1
\* files the appointments directory may hold in the interactive loop
MaxFiles == 1
\* load_car_data calls made on one object
MaxLoads == 2
\* the clock's microseconds run over 0 .. MaxMicro
MaxMicro == 1
\* save_appointment calls that succeed on one appointments directory
MaxSaves == 2

----------------------------------------------------------------------------
(* Text helpers: Python's str methods. *)

UpperLetters == "ABCDEFGHIJKLMNOPQRSTUVWXYZ"
LowerLetters == "abcdefghijklmnopqrstuvwxyz"

\* the lower-case letter of every upper-case letter
LowerOf ==
    [c \in {SubSeq(UpperLetters, i, i) : i \in 1..Len(UpperLetters)} |->
        LET i == CHOOSE j \in 1..Len(UpperLetters) :
                     SubSeq(UpperLetters, j, j) = c
        IN  SubSeq(LowerLetters, i, i)]

\* one character of str.lower()
LowerChar(c) == IF c \in DOMAIN LowerOf THEN LowerOf[c] ELSE c

RECURSIVE Lower(_)
\* str.lower()
Lower(s) ==
    IF Len(s) = 0 THEN ""
    ELSE LowerChar(SubSeq(s, 1, 1)) \o Lower(SubSeq(s, 2, Len(s)))

\* `sub in s` on two str
Contains(sub, s) ==
    \E i \in 1..(Len(s) - Len(sub) + 1) : SubSeq(s, i, i + Len(sub) - 1) = sub

\* s.startswith(p)
StartsWith(s, p) == Len(p) <= Len(s) /\ SubSeq(s, 1, Len(p)) = p

Last(seq) == seq[Len(seq)]

----------------------------------------------------------------------------
(* The inventory source and its rendering. *)

\* car_data = None: no table was ever read
NoTable == [columns |-> << >>, rows |-> << >>, readable |-> FALSE]

\* what pd.read_csv(csv_path) can find: a table, or nothing readable
Unreadable == [columns |-> << >>, rows |-> << >>, readable |-> FALSE]
Tables ==
    { [columns |-> <<"make", "price">>,
       rows |-> << <<"Audi", "30000">>, <<"VW", "5">> >>, readable |-> TRUE],
      [columns |-> <<"make", "price">>, rows |-> << >>, readable |-> TRUE] }
Sources == Tables \cup {Unreadable}

MaxOf(S) == CHOOSE m \in S : \A n \in S : n <= m

RECURSIVE Spaces(_)
Spaces(n) == IF n <= 0 THEN "" ELSE " " \o Spaces(n - 1)

\* the width of column j: its widest cell, the header included
ColumnWidth(t, j) ==
    MaxOf({Len(t.columns[j])} \cup {Len(t.rows[i][j]) : i \in 1..Len(t.rows)})

RECURSIVE Join(_, _)
\* sep.join(parts)
Join(parts, sep) ==
    IF Len(parts) = 0 THEN ""
    ELSE IF Len(parts) = 1 THEN parts[1]
    ELSE parts[1] \o sep \o Join(Tail(parts), sep)

\* one rendered line: every cell right-justified to its column's width
RenderLine(t, cells) ==
    Join([j \in 1..Len(cells) |->
             Spaces(ColumnWidth(t, j) - Len(cells[j])) \o cells[j]], "  ")

\* DataFrame.to_string(index=False)
to_string(t) ==
    IF Len(t.rows) = 0
    THEN "Empty DataFrame\nColumns: [" \o Join(t.columns, ", ") \o "]\nIndex: []"
    ELSE Join(<<RenderLine(t, t.columns)>> \o
              [i \in 1..Len(t.rows) |-> RenderLine(t, t.rows[i])], "\n")

NoCarData == "No car data available"

\* car_info after a load that succeeded
car_info_of(t) == "Available car data:\n" \o to_string(t)

\* a loader that keeps the text of an earlier load when the source is unreadable
load_car_data_KeepsOld(source, render_ok) ==
    /\ car_data' = IF source.readable THEN source ELSE car_data
    /\ has_car_info' = TRUE
    /\ car_info' = IF source.readable /\ render_ok THEN car_info_of(source)
                   ELSE IF has_car_info THEN car_info ELSE NoCarData
    /\ load_calls' = load_calls + 1
    /\ load_state' = IF source.readable /\ render_ok THEN "ok" ELSE "failed"

\* load_car_data(csv_path). source: what the path holds; render_ok: whether
\* to_string returned (it is inside the same try block as read_csv).
load_car_data(source, render_ok) ==
    /\ car_data' = IF source.readable THEN source ELSE car_data
    /\ has_car_info' = TRUE
    /\ car_info' = IF source.readable /\ render_ok
                   THEN car_info_of(source) ELSE NoCarData
    /\ load_calls' = load_calls + 1
    /\ load_state' = IF source.readable /\ render_ok THEN "ok" ELSE "failed"

----------------------------------------------------------------------------
(* The persona prompt. The two templates are long fixed texts; the model *)
(* keeps the opening words and the closing line of each.                 *)

base_prompt(v) ==
    IF v = "base"
    THEN "You are Hennyi, [...]\nPlease base your recommendations on the following vehicle data:\n"
    ELSE "You are Hengyi, [...]\nBrand Model Name Price Range Key Benefit Available Action\n"

\* create_system_prompt()
create_system_prompt(v, has, info) ==
    base_prompt(v) \o (IF has THEN info ELSE NoCarData)

DefaultModel(v) == IF v = "base" THEN "gpt-4o-mini" ELSE "gpt-4"

----------------------------------------------------------------------------
(* The conversation session. *)

Turn(role, content) == [role |-> role, content |-> content]

\* What client.chat.completions.create can do with a request: return a
\* completion whose first choice holds a text, return a completion with no
\* choice (choices[0] raises IndexError), or raise.
ResponseTexts == {"Come by for a test drive?", "Nice choice."}
ErrorTexts == {"Connection error."}
Completions ==
    {[kind |-> "ok", text |-> r] : r \in ResponseTexts}
    \cup {[kind |-> "raise", text |-> e] : e \in ErrorTexts}
    \cup {[kind |-> "no_choice", text |-> "list index out of range"]}
NoCompletion == [kind |-> "none", text |-> ""]

\* a history that appends the user turn before the remote call
HistoryAfter_UserFirst(history, query, c) ==
    IF c.kind = "ok"
    THEN Append(Append(history, Turn("user", query)),
                Turn("assistant", c.text))
    ELSE Append(history, Turn("user", query))

\* a history that appends the two turns in the wrong order
HistoryAfter_Swapped(history, query, c) ==
    IF c.kind = "ok"
    THEN Append(Append(history, Turn("assistant", c.text)),
                Turn("user", query))
    ELSE history

\* a request that puts the new user message before the history
BuildMessages_UserEarly(prompt, history, query) ==
    <<Turn("system", prompt), Turn("user", query)>> \o history

\* the messages list get_completion sends
BuildMessages(prompt, history, query) ==
    <<Turn("system", prompt)>> \o history \o <<Turn("user", query)>>

\* conversation_history when get_completion returns
HistoryAfter(history, query, c) ==
    IF c.kind = "ok"
    THEN Append(Append(history, Turn("user", query)),
                Turn("assistant", c.text))
    ELSE history

\* the value get_completion returns
Returned(c) ==
    IF c.kind = "ok" THEN c.text ELSE "Sorry, an error occurred: " \o c.text

\* get_completion(user_query), the remote service answering c
get_completion(query, c) ==
    /\ user_query' = query
    /\ messages' = BuildMessages(
                      create_system_prompt(variant, has_car_info, car_info),
                      conversation_history, query)
    /\ conversation_history' = HistoryAfter(conversation_history, query, c)
    /\ reply' = Returned(c)
    /\ completion' = c
    /\ exchanges' = IF c.kind = "ok"
                    THEN Append(exchanges, <<query, Returned(c)>>)
                    ELSE exchanges

\* a reset that drops only the last exchange
Cleared_LastOnly(history) ==
    IF Len(history) >= 2 THEN SubSeq(history, 1, Len(history) - 2) ELSE << >>

\* the history clear_conversation leaves
Cleared(history) == << >>

\* clear_conversation()
clear_conversation ==
    /\ conversation_history' = Cleared(conversation_history)
    /\ exchanges' = << >>

\* CarSalesAssistant.__init__
Constructed(v) ==
    /\ model = DefaultModel(v)
    /\ conversation_history = << >>
    /\ car_data = NoTable
    /\ has_car_info = FALSE
    /\ car_info = ""
    /\ user_query = ""
    /\ completion = NoCompletion
    /\ messages = << >>
    /\ reply = ""
    /\ exchanges = << >>
    /\ load_calls = 0
    /\ load_state = "never"

\* create_appointment_form(): every field None
create_appointment_form ==
    [name |-> PyNone, contact |-> PyNone, preferred_time |-> PyNone,
     vehicle |-> PyNone, notes |-> PyNone]

\* detect_test_drive_intent was not called yet
NoIntent ==
    /\ detect_args = <<"", "">>
    /\ detected = FALSE

\* an appointments directory without files
EmptyStorage ==
    /\ files = << >>
    /\ saves = << >>
    /\ now = [s |-> 0, us |-> 0]

\* main() before its first input() call
NoInput ==
    /\ stdin_line = ""
    /\ user_input = ""
    /\ response = ""
    /\ last_response = ""
    /\ appointment = create_appointment_form

\* the variables of main() and of the appointment manager, at rest
Idle == NoInput /\ NoIntent /\ EmptyStorage

----------------------------------------------------------------------------
(* Spec: one CarSalesAssistant object, its methods called in any order. *)

UserLines == {"Sure, sounds good", "hi"}

Init ==
    /\ variant \in {"base", "v1"}
    /\ pc = "constructed"
    /\ Constructed(variant)
    /\ Idle

CallLoadCarData ==
    \E source \in Sources, render_ok \in BOOLEAN :
        /\ source.readable \/ render_ok
        /\ load_calls < MaxLoads
        /\ load_car_data(source, render_ok)
        /\ pc' = "load_car_data"
        /\ completion' = NoCompletion
        /\ UNCHANGED <<variant, model, conversation_history, user_query,
                       messages, reply, exchanges, locals, intent, storage>>

CallGetCompletion ==
    \E query \in UserLines, c \in Completions :
        /\ c.kind = "ok" => Len(conversation_history) < 2 * MaxTurns
        /\ get_completion(query, c)
        /\ pc' = "get_completion"
        /\ UNCHANGED <<variant, model, car_data, has_car_info, car_info,
                       load_calls, load_state, locals, intent, storage>>

CallClearConversation ==
    /\ clear_conversation
    /\ pc' = "clear_conversation"
    /\ completion' = NoCompletion
    /\ UNCHANGED <<variant, model, car_data, has_car_info, car_info,
                   user_query, messages, reply, load_calls, load_state,
                   locals, intent, storage>>

Next == CallLoadCarData \/ CallGetCompletion \/ CallClearConversation

Spec == Init /\ [][Next]_vars

----------------------------------------------------------------------------
(* Properties of the session, checked under Spec. *)

Failed(c) == c.kind \in {"raise", "no_choice"}

\* C1: a get_completion call whose remote call fails (the client raises, or
\* the completion holds no choice) returns a text beginning "Sorry, an error
\* occurred:" and leaves conversation_history exactly as it was.
C1_FailedCallKeepsHistory ==
    [][(pc' = "get_completion" /\ Failed(completion'))
          => /\ conversation_history' = conversation_history
             /\ StartsWith(reply', "Sorry, an error occurred:")]_vars

\* a failed call has returned on a transcript that holds earlier exchanges
C1_Witness ==
    /\ pc = "get_completion"
    /\ completion.kind = "no_choice"
    /\ Len(conversation_history) >= 2

\* C2: in every reachable state the history has even length and alternates
\* user, assistant, ... starting with user; after N successful calls since
\* construction or the last clear its length is 2N, and its k-th pair is the
\* k-th successfully submitted user message and the response returned for it.
C2_HistoryAlternates ==
    LET h == conversation_history IN
    /\ Len(h) % 2 = 0
    /\ \A i \in 1..Len(h) :
          h[i].role = IF i % 2 = 1 THEN "user" ELSE "assistant"
    /\ Len(h) = 2 * Len(exchanges)
    /\ \A k \in 1..Len(exchanges) :
          /\ h[2 * k - 1] = Turn("user", exchanges[k][1])
          /\ h[2 * k] = Turn("assistant", exchanges[k][2])

\* a failed call has returned on a transcript of two exchanges
C2_Witness ==
    /\ pc = "get_completion"
    /\ Failed(completion)
    /\ Len(exchanges) >= 2
    /\ Len(conversation_history) >= 4

\* C3: every request is the system instruction, then the history turns in
\* their order, then the new user message; the system message is the only
\* one with role "system", and no history entry has that role.
C3_RequestOrder ==
    [][/\ \A i \in 1..Len(conversation_history') :
             conversation_history'[i].role # "system"
       /\ pc' = "get_completion" =>
             /\ Len(messages') = Len(conversation_history) + 2
             /\ messages'[1] =
                   Turn("system",
                        create_system_prompt(variant, has_car_info, car_info))
             /\ \A i \in 1..Len(conversation_history) :
                   messages'[i + 1] = conversation_history[i]
             /\ Last(messages') = Turn("user", user_query')
             /\ \A i \in 2..Len(messages') : messages'[i].role # "system"]_vars

\* a request that carried two earlier exchanges
C3_Witness ==
    /\ pc = "get_completion"
    /\ Len(messages) >= 6
    /\ messages[2].content # messages[4].content

\* C4: clear_conversation empties the history and changes nothing else, and
\* a get_completion issued right after it sends the request, and leaves the
\* history, of the same call on a fresh session with the same inventory.
C4_ClearIsFresh ==
    [][/\ pc' = "clear_conversation" =>
             /\ conversation_history' = << >>
             /\ UNCHANGED <<car_data, has_car_info, car_info, model>>
       /\ (pc = "clear_conversation" /\ pc' = "get_completion") =>
             /\ messages' =
                   <<Turn("system",
                          base_prompt(variant) \o
                             (IF has_car_info THEN car_info ELSE NoCarData)),
                     Turn("user", user_query')>>
             /\ conversation_history' =
                   IF completion'.kind = "ok"
                   THEN <<Turn("user", user_query'), Turn("assistant", reply')>>
                   ELSE << >>]_vars

\* clear_conversation has acted on a loaded session whose last request
\* carried two exchanges
C4_Witness ==
    /\ pc = "clear_conversation"
    /\ Len(messages) >= 6
    /\ load_state = "ok"
    /\ conversation_history = << >>

\* the inventory text the prompt must carry in the current state
ExpectedInventory ==
    IF load_state = "ok"
    THEN "Available car data:\n" \o to_string(car_data)
    ELSE NoCarData

\* C6: in every inventory state create_system_prompt is the template followed
\* by the rendered inventory of the last load, or by the sentinel when the
\* loader was never invoked or its last load failed; the request of every
\* call carries that prompt, so that after a failed load no row of an
\* earlier load is sent.
C6_PromptFollowsInventory ==
    /\ create_system_prompt(variant, has_car_info, car_info)
          = base_prompt(variant) \o ExpectedInventory
    /\ pc = "get_completion" =>
          /\ messages[1].content = base_prompt(variant) \o ExpectedInventory
          /\ load_state = "failed" =>
                \A t \in Tables : ~Contains(to_string(t), messages[1].content)

\* a turn was submitted after a failed load that followed a successful one
C6_Witness ==
    /\ pc = "get_completion"
    /\ load_state = "failed"
    /\ load_calls >= 2
    /\ car_data # NoTable
    /\ messages[1].content = base_prompt(variant) \o NoCarData

----------------------------------------------------------------------------
(* The intent detector of the appointment manager. *)

test_drive_keywords ==
    <<"test drive", "test-drive", "come see",
      "visit us", "schedule a visit", "book an appointment",
      "come by", "check it out", "see it in person">>

positive_responses ==
    <<"yes", "sure", "okay", "ok", "definitely",
      "absolutely", "would love to", "let's do it",
      "sounds good", "great", "perfect">>

RECURSIVE AnyIn(_, _)
\* any(keyword in text for keyword in keywords)
AnyIn(keywords, text) ==
    IF Len(keywords) = 0 THEN FALSE
    ELSE Contains(Head(keywords), text) \/ AnyIn(Tail(keywords), text)

\* a detector that compares without lower-casing the two texts
detect_test_drive_intent_CaseSensitive(salesman_response, user_response) ==
    /\ AnyIn(test_drive_keywords, salesman_response)
    /\ AnyIn(positive_responses, user_response)

\* detect_test_drive_intent(salesman_response, user_response)
detect_test_drive_intent(salesman_response, user_response) ==
    LET has_test_drive == AnyIn(test_drive_keywords, Lower(salesman_response))
        is_positive == AnyIn(positive_responses, Lower(user_response))
    IN  has_test_drive /\ is_positive

Range(seq) == {seq[i] : i \in 1..Len(seq)}

\* the texts the detector is applied to
SalesmanTexts ==
    {"Would you like to schedule a visit?", "That's a great question.",
     "test drive available", "", "TEST DRIVE today?", "Come See it",
     "testdrive", "Visit  us", "Check it out!", "a test\ndrive"}
    \cup {pre \o k \o post : pre \in {"", "Why not "}, post \in {"", "?"},
                            k \in Range(test_drive_keywords)}

UserTexts ==
    {"Sure, sounds good", "Sure", "no thanks", "", "YES", "Ok", "o k",
     "nope", "I will book later", "Perfect!"}
    \cup {pre \o k \o post : pre \in {"", "Oh "}, post \in {"", "!"},
                            k \in Range(positive_responses)}

DetectInit ==
    /\ variant = "v1"
    /\ pc = "detect_ready"
    /\ Constructed(variant)
    /\ NoInput
    /\ EmptyStorage
    /\ detect_args \in SalesmanTexts \X UserTexts
    /\ detected = FALSE

\* one call of detect_test_drive_intent
Detect ==
    /\ pc = "detect_ready"
    /\ detected' = detect_test_drive_intent(detect_args[1], detect_args[2])
    /\ pc' = "detect_done"
    /\ UNCHANGED <<variant, session, locals, detect_args, storage>>

DetectNext == Detect

DetectSpec == DetectInit /\ [][DetectNext]_vars

\* the phrase lists of the detector, as sets
TestDrivePhrases ==
    {"test drive", "test-drive", "come see", "visit us", "schedule a visit",
     "book an appointment", "come by", "check it out", "see it in person"}
AffirmativePhrases ==
    {"yes", "sure", "okay", "ok", "definitely", "absolutely", "would love to",
     "let's do it", "sounds good", "great", "perfect"}

\* some phrase of the set occupies the positions i..j of the text
HasPhrase(phrases, text) ==
    \E i \in 1..Len(text) : \E j \in i..Len(text) :
        SubSeq(text, i, j) \in phrases

\* C5: the detector answers true exactly when the lower-cased salesman text
\* contains a test-drive phrase and the lower-cased user text contains an
\* affirmative phrase; the three examples of the specification give true,
\* false and false; the call changes no state.
C5_DetectIffBothPhrases ==
    pc = "detect_done" =>
        /\ detected <=> (/\ HasPhrase(TestDrivePhrases, Lower(detect_args[1]))
                         /\ HasPhrase(AffirmativePhrases, Lower(detect_args[2])))
        /\ detect_args = <<"Would you like to schedule a visit?",
                           "Sure, sounds good">> => detected
        /\ detect_args = <<"That's a great question.", "Sure">> => ~detected
        /\ detect_args = <<"test drive available", "no thanks">> => ~detected
        /\ Constructed(variant)
        /\ files = << >>

\* the detector has answered true on a capitalised reply to a capitalised offer
C5_Witness ==
    /\ pc = "detect_done"
    /\ detect_args = <<"TEST DRIVE today?", "YES">>
    /\ detected

----------------------------------------------------------------------------
(* The appointment recorder. *)

\* the instants of the modelled minute, and their order
Times == [s : 0..MaxSec, us : 0..MaxMicro]
NotBefore(t2, t1) == t2.s > t1.s \/ (t2.s = t1.s /\ t2.us >= t1.us)

DecimalDigits == "0123456789"
Digit(n) == SubSeq(DecimalDigits, n + 1, n + 1)

RECURSIVE ZeroPad(_, _)
\* the decimal digits of n, zero-padded to width
ZeroPad(n, width) ==
    IF width = 0 THEN "" ELSE ZeroPad(n \div 10, width - 1) \o Digit(n % 10)

\* datetime.strftime("%Y%m%d_%H%M%S"): the microsecond is dropped
strftime(t) == "20241116_1200" \o ZeroPad(t.s, 2)

\* datetime.isoformat(): the fraction is omitted when the microsecond is 0
isoformat(t) ==
    "2024-11-16T12:00:" \o ZeroPad(t.s, 2)
        \o (IF t.us = 0 THEN "" ELSE "." \o ZeroPad(t.us, 6))

\* appointment_data.update({...}): the dict after the metadata was added
WithMetadata(appointment_data, t1, t2) ==
    [name |-> appointment_data.name,
     contact |-> appointment_data.contact,
     preferred_time |-> appointment_data.preferred_time,
     vehicle |-> appointment_data.vehicle,
     notes |-> appointment_data.notes,
     appointment_id |-> strftime(t1),
     created_at |-> isoformat(t2),
     status |-> "pending"]

\* os.path.join(appointments_dir, f"appointment_{appointment_id}.json")
Filename(record) == "appointments/appointment_" \o record.appointment_id \o ".json"

\* a file that open(filename, 'w') truncated and json.dump did not complete
TruncatedFile == [truncated |-> TRUE]

\* How a save can end: the file is written; open() raises and no file is
\* touched; or open() succeeds (creating or truncating the file) and the
\* write raises.
SaveOutcomes == {"written", "open_failed", "dump_failed"}

\* the directory after writing content under filename
Written(dir, filename, content) == (filename :> content) @@ dir

\* save_appointment(appointment_data): the first now() call reads the clock
\* at t1, the second at t2; nothing is raised to the caller.
save_appointment(appointment_data, t1, t2, outcome) ==
    LET record == WithMetadata(appointment_data, t1, t2)
        filename == Filename(record)
    IN  /\ NotBefore(t1, now)
        /\ NotBefore(t2, t1)
        /\ now' = t2
        /\ appointment' = record
        /\ files' = CASE outcome = "written" -> Written(files, filename, record)
                      [] outcome = "dump_failed" ->
                            Written(files, filename, TruncatedFile)
                      [] OTHER -> files

\* the forms a customer can fill in
Forms ==
    [name : {"Ann", "Bob"}, contact : {"555"}, preferred_time : {"Mon"},
     vehicle : {"Audi", "VW"}, notes : {""}]

SaveInit ==
    /\ variant = "v1"
    /\ pc = "manager_ready"
    /\ Constructed(variant)
    /\ NoInput
    /\ NoIntent
    /\ EmptyStorage

\* time passes between two calls: at least one microsecond
Tick ==
    /\ \E t \in Times : t # now /\ NotBefore(t, now) /\ now' = t
    /\ pc' = "manager_ready"
    /\ UNCHANGED <<variant, session, locals, intent, files, saves>>

\* one call of save_appointment
CallSaveAppointment ==
    \E form \in Forms, t2 \in Times, outcome \in SaveOutcomes :
        /\ pc = "manager_ready"
        /\ Len(saves) < MaxSaves
        /\ save_appointment(form, now, t2, outcome)
        /\ saves' = IF outcome = "written"
                    THEN Append(saves, WithMetadata(form, now, t2))
                    ELSE saves
        /\ pc' = "save_appointment"
        /\ UNCHANGED <<variant, session, stdin_line, user_input, response,
                       last_response, intent>>

SaveNext == Tick \/ CallSaveAppointment

SaveSpec == SaveInit /\ [][SaveNext]_vars

\* C7: after k successful saves the storage holds k distinct records, each
\* with the five fields of its own call, a non-empty appointment_id, a
\* created_at timestamp and status "pending"; no later save changes or
\* replaces a record an earlier save wrote.
C7_OneRecordPerSave ==
    /\ \A i \in 1..Len(saves) :
          /\ \E f \in DOMAIN files : files[f] = saves[i]
          /\ saves[i].appointment_id # ""
          /\ saves[i].created_at # ""
          /\ saves[i].status = "pending"
    /\ Cardinality({f \in DOMAIN files : files[f] \in Range(saves)})
          = Len(saves)

----------------------------------------------------------------------------
(* main() of the two variants. One step runs from one input() call to the *)
(* next: pc names the input() call main() is waiting at. The terminal is  *)
(* taken to deliver a line whenever main() asks for one.                  *)

ExitLines == {"exit", "QUIT"}
Lines == ExitLines \cup UserLines

\* a loop that compares the line with the exit keywords as typed
is_exit_CaseSensitive(line) == line \in {"exit", "quit"}

\* user_input.lower() in ['exit', 'quit']
is_exit(line) == Lower(line) \in {"exit", "quit"}

\* the five fields of the form, in the order main() asks for them
FormFields == <<"name", "contact", "preferred_time", "vehicle", "notes">>

\* what a customer types at each field's prompt
FieldInputs(field) ==
    CASE field = "name" -> {"Ann", "exit"}
      [] field = "contact" -> {"555"}
      [] field = "preferred_time" -> {"Mon"}
      [] field = "vehicle" -> {"Audi"}
      [] OTHER -> {""}

\* a loop that keeps the last stored response when the call failed
NextLastResponse_SkipFallback(last, resp) ==
    IF StartsWith(resp, "Sorry, an error occurred:") THEN last ELSE resp

\* last_response = response, at the end of an iteration
NextLastResponse(last, resp) == resp

MainInit ==
    /\ variant \in {"base", "v1"}
    /\ pc = "start"
    /\ Constructed(variant)
    /\ Idle

\* agent.py: main() up to its first input() call; load_car_data is not called
StartBase ==
    /\ variant = "base"
    /\ pc = "start"
    /\ pc' = "You"
    /\ UNCHANGED <<variant, session, locals, intent, storage>>

\* agent_v1.py: main() up to its first input() call
StartV1 ==
    /\ variant = "v1"
    /\ pc = "start"
    /\ \E source \in Sources, render_ok \in BOOLEAN :
          /\ source.readable \/ render_ok
          /\ load_car_data(source, render_ok)
    /\ pc' = "You"
    /\ UNCHANGED <<variant, model, conversation_history, user_query,
                   completion, messages, reply, exchanges, locals, intent,
                   storage>>

\* agent_v1.py: os.makedirs raises in AppointmentManager.__init__, before
\* the loop is entered
StartV1NoDirectory ==
    /\ variant = "v1"
    /\ pc = "start"
    /\ pc' = "raised"
    /\ UNCHANGED <<variant, session, locals, intent, storage>>

\* an exit keyword is read at the "You: " prompt
ReadExit ==
    /\ pc = "You"
    /\ \E line \in Lines :
          /\ is_exit(line)
          /\ stdin_line' = line
          /\ user_input' = line
    /\ completion' = NoCompletion
    /\ pc' = "done"
    /\ UNCHANGED <<variant, model, conversation_history, car_data,
                   has_car_info, car_info, user_query, messages, reply,
                   exchanges, load_calls, load_state, response,
                   last_response, appointment, intent, storage>>

\* agent.py: one iteration of the loop
BaseTurn ==
    /\ variant = "base"
    /\ pc = "You"
    /\ \E line \in Lines, c \in Completions :
          /\ ~is_exit(line)
          /\ c.kind = "ok" => Len(conversation_history) < 2 * MaxTurns
          /\ stdin_line' = line
          /\ user_input' = line
          /\ get_completion(line, c)
          /\ response' = Returned(c)
    /\ pc' = "You"
    /\ UNCHANGED <<variant, model, car_data, has_car_info, car_info,
                   load_calls, load_state, last_response, appointment,
                   intent, storage>>

\* agent_v1.py: one iteration of the loop, up to the form's first input()
\* call when the detector answers true, the whole iteration otherwise
V1Turn ==
    /\ variant = "v1"
    /\ pc = "You"
    /\ \E line \in Lines :
          /\ ~is_exit(line)
          /\ stdin_line' = line
          /\ user_input' = line
          /\ detect_args' = <<last_response, line>>
          /\ detected' = detect_test_drive_intent(last_response, line)
    /\ \E c \in Completions :
          /\ c.kind = "ok" => Len(conversation_history) < 2 * MaxTurns
          /\ get_completion(user_input', c)
          /\ response' = Returned(c)
          /\ IF detected'
             THEN /\ Cardinality(DOMAIN files) < MaxFiles
                  /\ appointment' = create_appointment_form
                  /\ last_response' = last_response
                  /\ pc' = "name"
             ELSE /\ appointment' = appointment
                  /\ last_response' = NextLastResponse(last_response, Returned(c))
                  /\ pc' = "You"
    /\ UNCHANGED <<variant, model, car_data, has_car_info, car_info,
                   load_calls, load_state, storage>>

\* agent_v1.py: one of the form's first four input() calls
V1FormField ==
    /\ variant = "v1"
    /\ \E k \in 1..4 :
          /\ pc = FormFields[k]
          /\ \E line \in FieldInputs(FormFields[k]) :
                /\ stdin_line' = line
                /\ appointment' = [appointment EXCEPT ![FormFields[k]] = line]
          /\ pc' = FormFields[k + 1]
    /\ completion' = NoCompletion
    /\ UNCHANGED <<variant, model, conversation_history, car_data,
                   has_car_info, car_info, user_query, messages, reply,
                   exchanges, load_calls, load_state, user_input, response,
                   last_response, intent, storage>>

\* agent_v1.py: the form's last input() call, save_appointment and the end
\* of the iteration
V1FormNotes ==
    /\ variant = "v1"
    /\ pc = "notes"
    /\ \E line \in FieldInputs("notes"), t1 \in Times, t2 \in Times,
          outcome \in SaveOutcomes :
          /\ stdin_line' = line
          /\ save_appointment([appointment EXCEPT !.notes = line],
                              t1, t2, outcome)
    /\ last_response' = NextLastResponse(last_response, response)
    /\ completion' = NoCompletion
    /\ pc' = "You"
    /\ UNCHANGED <<variant, model, conversation_history, car_data,
                   has_car_info, car_info, user_query, messages, reply,
                   exchanges, load_calls, load_state, user_input, response,
                   intent, saves>>

MainNext ==
    \/ StartBase
    \/ StartV1
    \/ StartV1NoDirectory
    \/ ReadExit
    \/ BaseTurn
    \/ V1Turn
    \/ V1FormField
    \/ V1FormNotes

MainSpec == MainInit /\ [][MainNext]_vars

----------------------------------------------------------------------------
(* Properties of main(), checked under MainSpec. *)

\* the input() calls of the loop
LoopPcs == {"You", "name", "contact", "preferred_time", "vehicle", "notes"}

\* the line is "exit" or "quit", ignoring case
ExitWord(line) == Lower(line) \in {"exit", "quit"}

\* the step sent a request whose last message is the line it read
Submitted == completion' # NoCompletion /\ Last(messages') = Turn("user", stdin_line')

C9_LoadedOnceAtStartup ==
    pc \in LoopPcs \cup {"done"} =>
        /\ load_calls = 1
        /\ load_state \in {"ok", "failed"}
        /\ messages # << >> =>
              messages[1].content =
                 base_prompt(variant) \o
                    (IF load_state = "ok" THEN car_info_of(car_data)
                     ELSE NoCarData)

\* the last assistant turn stored in the history, "" when there is none
LastStored(history) ==
    IF Len(history) = 0 THEN "" ELSE Last(history).content

\* C10 as stated: on every turn of the extended loop the detector is given
\* the last assistant turn stored in the history before the turn's message
\* was submitted ("" when the history was empty) and the turn's message.
C10_DetectorSeesLastStoredTurn ==
    [][(variant = "v1" /\ pc = "You" /\ completion' # NoCompletion) =>
          detect_args' = <<LastStored(conversation_history), stdin_line'>>]_vars

\* C10, amended: the detector is given the text the previous turn's
\* get_completion returned (the stored response after a successful call,
\* the fallback text after a failed one, "" on the first turn) and the
\* turn's message; the form starts exactly when it answers true, which it
\* never does on the first turn.
C10_DetectorSeesLastReturned ==
    [][(variant = "v1" /\ pc = "You" /\ completion' # NoCompletion) =>
          (/\ detect_args' = <<reply, stdin_line'>>
           /\ detected' <=> (pc' = "name")
           /\ messages = << >> => (reply = "" /\ ~detected'))]_vars

\* the detector was given the fallback text of a failed call while the
\* history holds an assistant turn
C10_Witness ==
    /\ variant = "v1"
    /\ completion # NoCompletion
    /\ StartsWith(detect_args[1], "Sorry, an error occurred:")
    /\ Len(conversation_history) >= 2
    /\ detect_args[1] # LastStored(conversation_history)

====
